---------------------------- MODULE Spec2Model ----------------------------
(***************************************************************************)
(* A model of the seed_data management command of the peer-assessment      *)
(* application (my_app/management/commands/seed_data.py): the team-size    *)
(* partitioner, the biased score sampler, the purge and the generation     *)
(* run against the relational store.                                       *)
(*                                                                         *)
(* Three specifications share the variables:                               *)
(*   SpecPart  partition_into_teams alone, stepped through its loop, with  *)
(*             every outcome of rng.shuffle;                               *)
(*   SpecScore biased_score alone, for every value the draw may yield;     *)
(*   Spec      sequences of invocations of the command against one store,  *)
(*             with and without the export.                                *)
(***************************************************************************)
EXTENDS Integers, Sequences, FiniteSets, TLC

VARIABLES
    part,       \* the frame of one call of partition_into_teams (SpecPart)
    store,      \* the database: one table per model, a row's id is its index
    pc,         \* the position of the command in handle()
    opt,        \* the options of the invocation under way
    rng,        \* the state of random.Random(seed)
    idx,        \* the course index of the generation loop
    loc,        \* the locals of the loop body
    txn,        \* the tables as they were when transaction.atomic() was entered
    before,     \* the tables as they were when the command was invoked
    log,        \* the statements the invocation has issued so far
    runs,       \* the number of invocations made
    hist,       \* the committed generations: options and resulting tables
    exp,        \* the export: csv_rows, the files written, the manifest
    samp,       \* the frame of one call of biased_score (SpecScore)
    split,      \* the frame of one call of _rand_team_splits (SpecSplits)
    dos         \* the counters and workers of test_dos_sustained_load (SpecDos)

vars == <<part, store, pc, opt, rng, idx, loc, txn, before, log, runs, hist, exp,
          samp, split, dos>>

(***************************************************************************)
(* Bounds of the model.                                                    *)
(***************************************************************************)
MaxN == 9           \* SpecPart: student counts 0..MaxN
MaxTeam == 7        \* SpecPart: team-size bounds 1..MaxTeam
MaxSeed == 1        \* Spec: seeds 0..MaxSeed
MaxRuns == 2        \* Spec: invocations per behaviour
CoursesBase == 1    \* Spec: the course target of levels 1 and 2, scaled down
StudentsMin == 2    \* Spec: students_min, scaled down
StudentsMax == 4    \* Spec: students_max of levels 1 and 2, scaled down
TeamMin == 2        \* Spec: team_min, scaled down
TeamMax == 3        \* Spec: team_max of levels 2 and 3, scaled down
MaxMaxScore == 6    \* SpecScore: max_score in 1..MaxMaxScore
Grain == 10         \* SpecScore: the draws are the multiples of 1/Grain
MaxCount == 6       \* SpecSplits: student counts 0..MaxCount
MaxSplit == 4       \* SpecSplits: team-size bounds 1..MaxSplit
Concurrency == 2    \* SpecDos: concurrency (max_workers), scaled down
MaxRounds == 2      \* SpecDos: passes of the submitting loop before stop_time

(***************************************************************************)
(* Arithmetic and sequence helpers.                                        *)
(***************************************************************************)
Max(a, b) == IF a >= b THEN a ELSE b

Min(a, b) == IF a <= b THEN a ELSE b

RECURSIVE Sum(_)
Sum(s) == IF s = <<>> THEN 0 ELSE Head(s) + Sum(Tail(s))

Range(s) == {s[i] : i \in DOMAIN s}

\* Python's round() of the rational num/den (den > 0): half goes to even.
PyRound(num, den) ==
    LET q == num \div den
        r == num % den
    IN  IF 2 * r < den THEN q
        ELSE IF 2 * r > den THEN q + 1
        ELSE IF q % 2 = 0 THEN q ELSE q + 1

\* The permutations of the set S, as sequences.
RECURSIVE Perms(_)
Perms(S) ==
    IF S = {} THEN {<<>>}
    ELSE UNION {{<<x>> \o p : p \in Perms(S \ {x})} : x \in S}

(***************************************************************************)
(* partition_into_teams.  A frame is [sizes, assigned, team_count]; teams  *)
(* are numbered from 1 (the code's index i is team i + 1).                 *)
(***************************************************************************)

\* The initial frame with the team count taken from min_team alone instead of
\* the mean of min_team and max_team of line 39.
PartitionInitByMin(num_students, min_team, max_team) ==
    LET lower_bound == Max(1, num_students \div max_team)
        approx_teams == Max(1, PyRound(num_students, min_team))
        team_count == Max(lower_bound, approx_teams)
    IN  [sizes |-> [i \in 1..team_count |-> min_team],
         assigned |-> min_team * team_count,
         team_count |-> team_count]

\* Lines 38-42: the initial team count and every team at min_team.
PartitionInit(num_students, min_team, max_team) ==
    LET lower_bound == Max(1, num_students \div max_team)
        approx_teams == Max(1, PyRound(2 * num_students, min_team + max_team))
        team_count == Max(lower_bound, approx_teams)
    IN  [sizes |-> [i \in 1..team_count |-> min_team],
         assigned |-> min_team * team_count,
         team_count |-> team_count]

RECURSIVE ForIdxsNoCap(_, _, _, _)
\* The for loop without the test sizes[i] < max_team of line 48.
ForIdxsNoCap(f, idxs, num_students, max_team) ==
    IF idxs = <<>> THEN f
    ELSE
        LET i == Head(idxs)
            g == IF f.assigned < num_students
                 THEN [f EXCEPT !.sizes[i] = @ + 1, !.assigned = @ + 1,
                                !.progressed = TRUE]
                 ELSE f
        IN  IF g.assigned >= num_students THEN g
            ELSE ForIdxsNoCap(g, Tail(idxs), num_students, max_team)

\* Lines 47-53: the for loop over the shuffled indexes; f carries the frame
\* and the flag `progressed`.
RECURSIVE ForIdxs(_, _, _, _)
ForIdxs(f, idxs, num_students, max_team) ==
    IF idxs = <<>> THEN f
    ELSE
        LET i == Head(idxs)
            hit == f.sizes[i] < max_team /\ f.assigned < num_students
            g == IF hit
                 THEN [f EXCEPT !.sizes[i] = @ + 1, !.assigned = @ + 1,
                                !.progressed = TRUE]
                 ELSE f
        IN  IF g.assigned >= num_students THEN g
            ELSE ForIdxs(g, Tail(idxs), num_students, max_team)

\* One pass of the while loop without the appended team of lines 54-61.
WhilePassNoAppend(st, idxs, num_students, min_team, max_team) ==
    LET f == ForIdxs([sizes |-> st.sizes, assigned |-> st.assigned,
                      team_count |-> st.team_count, progressed |-> FALSE],
                     idxs, num_students, max_team)
    IN  [sizes |-> f.sizes, assigned |-> f.assigned, team_count |-> f.team_count]

\* Lines 44-61: one pass of the while loop, idxs being the shuffled indexes.
WhilePass(st, idxs, num_students, min_team, max_team) ==
    LET f == ForIdxs([sizes |-> st.sizes, assigned |-> st.assigned,
                      team_count |-> st.team_count, progressed |-> FALSE],
                     idxs, num_students, max_team)
        remain == num_students - f.assigned
        add == Min(Max(remain, min_team), max_team)
    IN  IF f.progressed \/ remain <= 0
        THEN [sizes |-> f.sizes, assigned |-> f.assigned,
              team_count |-> f.team_count]
        ELSE [sizes |-> Append(f.sizes, add), assigned |-> f.assigned + add,
              team_count |-> f.team_count + 1]

\* Lines 64-69: the backwards loop of the overshoot correction from team i.
RECURSIVE TakeBack(_, _, _, _)
TakeBack(sizes, i, overflow, min_team) ==
    IF i < 1 THEN sizes
    ELSE
        LET take == Min(overflow, sizes[i] - min_team)
            s2 == [sizes EXCEPT ![i] = @ - take]
        IN  IF overflow - take = 0 THEN s2
            ELSE TakeBack(s2, i - 1, overflow - take, min_team)

\* The frame left as the while loop left it, without lines 62-69.
FixOverflowNone(st, num_students, min_team) == st

\* Lines 62-69: the overshoot correction.
FixOverflow(st, num_students, min_team) ==
    IF st.assigned > num_students
    THEN [st EXCEPT !.sizes = TakeBack(st.sizes, st.team_count,
                                       st.assigned - num_students, min_team)]
    ELSE st

\* Line 70: the condition of the assert.
PartitionCheck(sizes, num_students) == Sum(sizes) = num_students

\* The k-element subsets of S.
RECURSIVE KSubsets(_, _)
KSubsets(S, k) ==
    IF k = 0 THEN {{}}
    ELSE IF Cardinality(S) < k THEN {}
    ELSE LET x == CHOOSE y \in S : TRUE
         IN  KSubsets(S \ {x}, k) \cup {T \cup {x} : T \in KSubsets(S \ {x}, k - 1)}

\* Lines 45-53 by their effect: the for loop adds one to the first k teams
\* below max_team in the shuffled order, k being the lesser of their number
\* and the number of students left, so the outcomes of rng.shuffle are the
\* choices of k such teams.
PassHits(st, num_students, max_team) ==
    LET open == {i \in 1..st.team_count : st.sizes[i] < max_team}
    IN  KSubsets(open, Min(Cardinality(open), num_students - st.assigned))

\* Lines 44-61: one pass of the while loop (assigned < num_students) in which
\* the for loop adds one to the teams of hit.
WhilePassOn(st, hit, num_students, min_team, max_team) ==
    LET sizes == [i \in 1..st.team_count |->
                     IF i \in hit THEN st.sizes[i] + 1 ELSE st.sizes[i]]
        assigned == st.assigned + Cardinality(hit)
        remain == num_students - assigned
        add == Min(Max(remain, min_team), max_team)
    IN  IF hit # {} \/ remain <= 0
        THEN [sizes |-> sizes, assigned |-> assigned, team_count |-> st.team_count]
        ELSE [sizes |-> Append(sizes, add), assigned |-> assigned + add,
              team_count |-> st.team_count + 1]

\* Lines 27-31: the student and team-size ranges of the three levels.
LevelPresets ==
    <<[students_min |-> 30, students_max |-> 80, team_min |-> 4, team_max |-> 8],
      [students_min |-> 30, students_max |-> 80, team_min |-> 4, team_max |-> 6],
      [students_min |-> 30, students_max |-> 100, team_min |-> 4, team_max |-> 6]>>

\* Lines 159 and 180: the calls a run can make at the three levels.
PresetInputs ==
    UNION {{[n |-> n, min_team |-> LevelPresets[l].team_min,
             max_team |-> LevelPresets[l].team_max] :
               n \in LevelPresets[l].students_min..LevelPresets[l].students_max} :
           l \in 1..3}

(***************************************************************************)
(* SpecPart: one call of partition_into_teams, for every input within the  *)
(* bounds and every outcome of rng.shuffle.                                *)
(***************************************************************************)
PartInputs ==
    {i \in [n : 0..MaxN, min_team : 1..MaxTeam, max_team : 1..MaxTeam] :
        i.min_team <= i.max_team}

\* No call of _rand_team_splits under way.
NoSplit ==
    [pc |-> "none", student_count |-> 0, team_min |-> 1, team_max |-> 1,
     sizes |-> <<>>, remaining |-> 0]

\* The sustained-load probe not started.  task holds the submitted calls of
\* single_request in the order of their submission.
NoDos ==
    [pc |-> "none", total_sent |-> 0, total_success |-> 0, total_errors |-> 0,
     submitted |-> 0, rounds |-> 0, k |-> 0, task |-> <<>>]

\* No call of biased_score under way; a is the draw in units of 1/Grain.
NoSamp == [pc |-> "none", max_score |-> 1, a |-> 0, val |-> 0]

NoPart ==
    [pc |-> "none", n |-> 0, min_team |-> 1, max_team |-> 1, sizes |-> <<>>,
     assigned |-> 0, team_count |-> 0, passes |-> 0, shuffles |-> 0]

runVars ==
    <<store, pc, opt, rng, idx, loc, txn, before, log, runs, hist, exp, samp, split,
      dos>>

\* The entry without the early return of lines 36-37.
PartEnterNoSmall ==
    /\ part.pc = "call"
    /\ part' =
          IF part.n <= 0 THEN [part EXCEPT !.pc = "return", !.sizes = <<>>]
          ELSE LET st == PartitionInit(part.n, part.min_team, part.max_team)
               IN  [part EXCEPT !.pc = "while", !.sizes = st.sizes,
                                !.assigned = st.assigned,
                                !.team_count = st.team_count]
    /\ UNCHANGED runVars

\* The entry without the early return of lines 34-35.
PartEnterNoZero ==
    /\ part.pc = "call"
    /\ part' =
          IF part.n < part.min_team
          THEN [part EXCEPT !.pc = "return", !.sizes = <<part.n>>]
          ELSE LET st == PartitionInit(part.n, part.min_team, part.max_team)
               IN  [part EXCEPT !.pc = "while", !.sizes = st.sizes,
                                !.assigned = st.assigned,
                                !.team_count = st.team_count]
    /\ UNCHANGED runVars

\* Lines 34-42: the two early returns, else the initial frame.
PartEnter ==
    /\ part.pc = "call"
    /\ part' =
          IF part.n <= 0 THEN [part EXCEPT !.pc = "return", !.sizes = <<>>]
          ELSE IF part.n < part.min_team
          THEN [part EXCEPT !.pc = "return", !.sizes = <<part.n>>]
          ELSE LET st == PartitionInit(part.n, part.min_team, part.max_team)
               IN  [part EXCEPT !.pc = "while", !.sizes = st.sizes,
                                !.assigned = st.assigned,
                                !.team_count = st.team_count]
    /\ UNCHANGED runVars

\* Lines 43-61: one pass of the while loop under some outcome of the shuffle.
PartWhile ==
    /\ part.pc = "while"
    /\ part.assigned < part.n
    /\ \E idxs \in Perms(1..part.team_count) :
          LET st == WhilePass(part, idxs, part.n, part.min_team, part.max_team)
          IN  part' = [part EXCEPT !.sizes = st.sizes,
                                   !.assigned = st.assigned,
                                   !.team_count = st.team_count,
                                   !.passes = @ + 1, !.shuffles = @ + 1]
    /\ UNCHANGED runVars

\* Line 43: the while condition is false.
PartWhileExit ==
    /\ part.pc = "while"
    /\ part.assigned >= part.n
    /\ part' = [part EXCEPT !.pc = "fix"]
    /\ UNCHANGED runVars

\* Lines 62-69.
PartFix ==
    /\ part.pc = "fix"
    /\ part' = [part EXCEPT
                  !.sizes = FixOverflow(part, part.n, part.min_team).sizes,
                  !.pc = "assert"]
    /\ UNCHANGED runVars

\* Lines 70-71: the assert, then the return.
PartAssert ==
    /\ part.pc = "assert"
    /\ part' = [part EXCEPT
                  !.pc = IF PartitionCheck(part.sizes, part.n)
                         THEN "return" ELSE "raise"]
    /\ UNCHANGED runVars

NextPart == PartEnter \/ PartWhile \/ PartWhileExit \/ PartFix \/ PartAssert

\* Lines 43-61: one pass of the while loop, by the teams the for loop adds to.
PresetWhile ==
    /\ part.pc = "while"
    /\ part.assigned < part.n
    /\ \E hit \in PassHits(part, part.n, part.max_team) :
          LET st == WhilePassOn(part, hit, part.n, part.min_team, part.max_team)
          IN  part' = [part EXCEPT !.sizes = st.sizes,
                                   !.assigned = st.assigned,
                                   !.team_count = st.team_count,
                                   !.passes = @ + 1, !.shuffles = @ + 1]
    /\ UNCHANGED runVars

NextPreset ==
    PartEnter \/ PresetWhile \/ PartWhileExit \/ PartFix \/ PartAssert

(***************************************************************************)
(* Strings.  The parts of a string that the command computes are sequences *)
(* of ASCII codes, so that formatting, prefix matching and ordering are    *)
(* what they are on the text.                                              *)
(***************************************************************************)
RECURSIVE Digits(_)
\* str(n) for n >= 0.
Digits(n) ==
    IF n < 10 THEN <<48 + n>> ELSE Digits(n \div 10) \o <<48 + (n % 10)>>

RECURSIVE ZeroPad(_, _)
\* The format spec 0{width}d applied to the digits s.
ZeroPad(s, width) == IF Len(s) >= width THEN s ELSE ZeroPad(<<48>> \o s, width)

\* The course number without the index: every course of a run is CS1000.
CourseNumberNoIdx(i) == <<67, 83>> \o ZeroPad(Digits(1000), 4)

\* Line 144: f"CS{1000 + idx:04d}".
CourseNumber(i) == <<67, 83>> \o ZeroPad(Digits(1000 + i), 4)

\* Line 134: f"teacher+{idx+1}@faculty.example.edu".
TeacherEmail(i) ==
    [head |-> "teacher+", body |-> Digits(i + 1), tail |-> "@faculty.example.edu"]

\* Line 161: f"student+{course.course_number}-{j+1}@student.example.edu".
StudentEmail(course_number, j) ==
    [head |-> "student+", body |-> course_number \o <<45>> \o Digits(j + 1),
     tail |-> "@student.example.edu"]

\* Line 168: email__startswith=f"student+{course.course_number}-".  A body
\* shorter than the prefix continues with "@", which no prefix contains.
EmailStartsWith(email, course_number) ==
    LET p == course_number \o <<45>>
    IN  /\ email.head = "student+"
        /\ Len(email.body) >= Len(p)
        /\ SubSeq(email.body, 1, Len(p)) = p

RECURSIVE LexLess(_, _)
\* a < b for two code sequences, as strings compare.
LexLess(a, b) ==
    IF b = <<>> THEN FALSE
    ELSE IF a = <<>> THEN TRUE
    ELSE IF Head(a) # Head(b) THEN Head(a) < Head(b)
    ELSE LexLess(Tail(a), Tail(b))

\* The text of a student email after "student+", up to the "@" of the tail.
EmailKey(email) == email.body \o <<64>>

(***************************************************************************)
(* random.Random.  The generator is a deterministic function of its seed;  *)
(* a small congruential generator stands for the Mersenne Twister.         *)
(***************************************************************************)
RngNext(s) == (s * 75 + 74) % 65537

\* random.Random() without the seed: seeded from the clock, which the number
\* of the invocation stands for.
RandomUnseeded(seed) == RngNext(RngNext((runs * 4099) % 65537))

\* Line 101: random.Random(opt["seed"]).
Random(seed) == RngNext(RngNext(((seed + 1) * 4099) % 65537))

\* _randbelow(k): a value in 0..k-1 and the generator's next state.
RandBelow(r, k) == [val |-> (RngNext(r) \div 7) % k, rng |-> RngNext(r)]

\* Line 159: rng.randint(a, b).
RandInt(r, a, b) ==
    LET d == RandBelow(r, b - a + 1) IN [val |-> a + d.val, rng |-> d.rng]

RECURSIVE ShuffleFrom(_, _, _)
\* random.shuffle: for i from the last index down to the second, swap x[i]
\* with x[j], j drawn below i + 1.
ShuffleFrom(x, i, r) ==
    IF i < 2 THEN [val |-> x, rng |-> r]
    ELSE LET d == RandBelow(r, i)
             j == d.val + 1
         IN  ShuffleFrom([x EXCEPT ![i] = x[j], ![j] = x[i]], i - 1, d.rng)

\* Lines 45 and 181: rng.shuffle(x).
Shuffle(x, r) == ShuffleFrom(x, Len(x), r)

\* The integer square root.
ISqrt(n) == CHOOSE k \in 0..n : k * k <= n /\ (k + 1) * (k + 1) > n

\* Line 75: rng.triangular(low, high, mode) with mode = high, in tenths:
\* low + (high - low) * sqrt(u), u = random() in hundredths.
Triangular(r, low, high) ==
    LET d == RandBelow(r, 100)
        w == 10 * (high - low)
    IN  [val |-> 10 * low + ISqrt((w * w * d.val) \div 100), rng |-> d.rng]

\* A score counted from zero.
ScoreZeroBased(num, den, max_score) ==
    Max(0, Min(max_score - 1, PyRound(num, den) - 1))

\* Line 76: max(1, min(max_score, int(round(a)))) for a = num/den.
ClampedRound(num, den, max_score) == Max(1, Min(max_score, PyRound(num, den)))

\* Lines 73-76: biased_score.
biased_score(r, max_score) ==
    LET a == Triangular(r, 1, max_score)
    IN  [val |-> ClampedRound(a.val, 10, max_score), rng |-> a.rng]

RECURSIVE WhileLoop(_, _, _, _, _)
\* Lines 43-61 under the generator r: the passes until assigned >= num_students.
WhileLoop(st, r, num_students, min_team, max_team) ==
    IF st.assigned >= num_students THEN [val |-> st, rng |-> r]
    ELSE LET sh == Shuffle([i \in 1..st.team_count |-> i], r)
         IN  WhileLoop(WhilePass(st, sh.val, num_students, min_team, max_team),
                       sh.rng, num_students, min_team, max_team)

\* Lines 33-71: the whole call; ok is FALSE when the assert fails.
partition_into_teams(num_students, min_team, max_team, r) ==
    IF num_students <= 0 THEN [sizes |-> <<>>, rng |-> r, ok |-> TRUE]
    ELSE IF num_students < min_team
    THEN [sizes |-> <<num_students>>, rng |-> r, ok |-> TRUE]
    ELSE LET w == WhileLoop(PartitionInit(num_students, min_team, max_team),
                            r, num_students, min_team, max_team)
             st == FixOverflow(w.val, num_students, min_team)
         IN  [sizes |-> st.sizes, rng |-> w.rng,
              ok |-> PartitionCheck(st.sizes, num_students)]

(***************************************************************************)
(* The store.  A table is the sequence of its rows in id order; ids are    *)
(* 1 + the largest id in the table (SQLite rowids, settings_test.py), so a *)
(* row's id is its index.                                                  *)
(***************************************************************************)
\* Lines 13-25: the models the command imports.
Models ==
    {"User", "Course", "CourseMember", "Team", "TeamMember", "Assessment",
     "AssessmentQuestion", "AssessmentResponse", "TeamAssessmentAnalysis",
     "QuestionAnalysisCache", "OpenEndedToneAnalysis"}

EmptyStore == [m \in Models |-> <<>>]

\* Lines 27-31, scaled down: level 1 has the widest team range, level 3 the
\* most courses and the widest student range.
LEVEL_CONFIG ==
    [l \in 1..3 |->
        [courses |-> IF l = 3 THEN CoursesBase + 1 ELSE CoursesBase,
         students_min |-> StudentsMin,
         students_max |-> IF l = 3 THEN StudentsMax + 1 ELSE StudentsMax,
         team_min |-> TeamMin,
         team_max |-> IF l = 1 THEN TeamMax + 1 ELSE TeamMax]]

\* Lines 224-230: the number of likert prompts.
NumPrompts == 5

\* Line 261: the max_score passed to biased_score.
MaxScore == 5

\* _purge without the delete of the courses.
PurgeOrderNoCourse ==
    <<"OpenEndedToneAnalysis", "QuestionAnalysisCache", "TeamAssessmentAnalysis",
      "AssessmentResponse", "AssessmentQuestion", "Assessment", "TeamMember",
      "Team", "CourseMember", "User">>

\* _purge deleting the users before the rows that refer to them.
PurgeOrderUsersFirst ==
    <<"OpenEndedToneAnalysis", "QuestionAnalysisCache", "TeamAssessmentAnalysis",
      "User", "AssessmentResponse", "AssessmentQuestion", "Assessment",
      "TeamMember", "Team", "CourseMember", "Course">>

\* Lines 321-331: the order of the deletes of _purge.
PurgeOrder ==
    <<"OpenEndedToneAnalysis", "QuestionAnalysisCache", "TeamAssessmentAnalysis",
      "AssessmentResponse", "AssessmentQuestion", "Assessment", "TeamMember",
      "Team", "CourseMember", "Course", "User">>

RECURSIVE AscSeq(_)
\* The integers of the set S in ascending order: order_by("id").
AscSeq(S) ==
    IF S = {} THEN <<>>
    ELSE LET m == CHOOSE x \in S : \A y \in S : x <= y
         IN  <<m>> \o AscSeq(S \ {m})

RECURSIVE ByEmail(_, _)
\* The user ids of S ordered by email, equal emails by id: order_by("email").
ByEmail(S, users) ==
    IF S = {} THEN <<>>
    ELSE LET m == CHOOSE x \in S : \A y \in S :
                    \/ LexLess(EmailKey(users[x].email), EmailKey(users[y].email))
                    \/ (EmailKey(users[x].email) = EmailKey(users[y].email) /\ x <= y)
         IN  <<m>> \o ByEmail(S \ {m}, users)

\* The students re-read by role alone, whatever their email.
StudentsOfAnyCourse(db, course_number) ==
    ByEmail({u \in DOMAIN db.User : db.User[u].role = "student"}, db.User)

\* Lines 167-169: the students re-read by email prefix.
StudentsOf(db, course_number) ==
    ByEmail({u \in DOMAIN db.User :
                /\ EmailStartsWith(db.User[u].email, course_number)
                /\ db.User[u].role = "student"}, db.User)

\* Line 173: CourseMember.objects.filter(course=course).order_by("id").
MembersOf(db, course) ==
    AscSeq({m \in DOMAIN db.CourseMember : db.CourseMember[m].course = course})

\* Line 188: Team.objects.filter(course=course).order_by("id").
TeamsOf(db, course) ==
    AscSeq({t \in DOMAIN db.Team : db.Team[t].course = course})

\* Line 237: AssessmentQuestion.objects.filter(assessment=assess).order_by("id").
QuestionsOf(db, assess) ==
    AscSeq({q \in DOMAIN db.AssessmentQuestion :
                db.AssessmentQuestion[q].assessment = assess})

\* Lines 247-249: by_team[team_id], the course members of a team in row order.
TeamCms(db, team) ==
    LET rows == AscSeq({r \in DOMAIN db.TeamMember : db.TeamMember[r].team = team})
    IN  [k \in DOMAIN rows |-> db.TeamMember[rows[k]].course_member]

\* by_team built from every TeamMember row, whatever its course.
ByTeamKeysAllCourses(db, course) ==
    AscSeq({db.TeamMember[r].team : r \in DOMAIN db.TeamMember})

\* Line 248: the teams of by_team, in team_id order.
ByTeamKeys(db, course) ==
    AscSeq({db.TeamMember[r].team : r \in
              {r \in DOMAIN db.TeamMember :
                   db.Team[db.TeamMember[r].team].course = course}})

\* Python's items[a:b] for 0 <= a <= b.
Slice(items, a, b) == SubSeq(items, a + 1, Min(b, Len(items)))

RECURSIVE ChunksNoAdvance(_, _, _, _)
\* The chunks without pos += sz of line 198.
ChunksNoAdvance(teams, sizes, members, pos) ==
    IF teams = <<>> THEN <<>>
    ELSE LET sz == Head(sizes)
             chunk == SubSeq(members, pos + 1, IF pos + sz <= Len(members)
                                                THEN pos + sz ELSE Len(members))
         IN  [k \in DOMAIN chunk |-> [team |-> Head(teams), course_member |-> chunk[k]]]
             \o ChunksNoAdvance(Tail(teams), Tail(sizes), members, pos)

RECURSIVE Chunks(_, _, _, _)
\* Lines 195-200: the TeamMember rows, team by team from position pos.
Chunks(teams, sizes, members, pos) ==
    IF teams = <<>> THEN <<>>
    ELSE LET sz == Head(sizes)
             chunk == Slice(members, pos, pos + sz)
         IN  [k \in DOMAIN chunk |-> [team |-> Head(teams), course_member |-> chunk[k]]]
             \o Chunks(Tail(teams), Tail(sizes), members, pos + sz)

RECURSIVE DrawScores(_, _)
\* Lines 260-261: one biased_score per question, in question order.
DrawScores(n, r) ==
    IF n = 0 THEN [val |-> <<>>, rng |-> r]
    ELSE LET d == biased_score(r, MaxScore)
             rest == DrawScores(n - 1, d.rng)
         IN  [val |-> <<d.val>> \o rest.val, rng |-> rest.rng]

\* The pairs without the test i == j of line 257.
PairsWithSelf(cms) ==
    LET n == Len(cms)
    IN  [k \in 1..(n * n) |-> <<cms[((k - 1) \div n) + 1], cms[((k - 1) % n) + 1]>>]

\* Lines 255-258: the ordered pairs (i, j), i # j, of the positions of cms.
PairsOf(cms) ==
    LET n == Len(cms)
        all == [k \in 1..(n * n) |-> <<cms[((k - 1) \div n) + 1], cms[((k - 1) % n) + 1]>>]
        keep == {k \in 1..(n * n) : ((k - 1) \div n) # ((k - 1) % n)}
        ks == AscSeq(keep)
    IN  [k \in DOMAIN ks |-> all[ks[k]]]

RECURSIVE AllPairs(_, _)
\* Line 253: the pairs of every team of by_team, team after team.
AllPairs(db, keys) ==
    IF keys = <<>> THEN <<>>
    ELSE PairsOf(TeamCms(db, Head(keys))) \o AllPairs(db, Tail(keys))

RECURSIVE BuildResponses(_, _, _, _, _)
\* Lines 259-270: one AssessmentResponse per pair, its answers drawn in order.
BuildResponses(db, pairs, assess, questions, r) ==
    IF pairs = <<>> THEN [val |-> <<>>, rng |-> r]
    ELSE LET d == DrawScores(Len(questions), r)
             row == [assessment |-> assess,
                     from_user |-> db.CourseMember[Head(pairs)[1]].user,
                     to_user |-> db.CourseMember[Head(pairs)[2]].user,
                     answers |-> [q \in Range(questions) |->
                                    d.val[CHOOSE k \in DOMAIN questions : questions[k] = q]],
                     submitted |-> TRUE]
             rest == BuildResponses(db, Tail(pairs), assess, questions, d.rng)
         IN  [val |-> <<row>> \o rest.val, rng |-> rest.rng]

(***************************************************************************)
(* The export.  A row of csv_rows is the tuple of the fields the code      *)
(* appends, ids and fields as the store holds them.                        *)
(***************************************************************************)
\* Line 98: the default of --export-csv.
None == "None"

\* Lines 116-123: the keys of csv_rows, one per exported file.
ExportKinds ==
    <<"users", "courses", "course_members", "teams", "team_members",
      "assessments", "assessment_questions", "assessment_responses">>

\* Lines 303-310: the model counted under each key of the manifest.
ModelOf ==
    [users |-> "User", courses |-> "Course", course_members |-> "CourseMember",
     teams |-> "Team", team_members |-> "TeamMember", assessments |-> "Assessment",
     assessment_questions |-> "AssessmentQuestion",
     assessment_responses |-> "AssessmentResponse"]

\* Lines 115-124: csv_rows as created.
EmptyRows == [k \in Range(ExportKinds) |-> <<>>]

\* No export under way: stage is "off", then "rows" once csv_rows exists,
\* "files" once the eight files are written, "manifest" once manifest.json is.
NoExp ==
    [stage |-> "off", csv_rows |-> EmptyRows, files |-> EmptyRows,
     manifest |-> [k \in Range(ExportKinds) |-> 0]]

\* Line 111: export = opt["export_csv"] is not None.
Export(o) == o.export_csv # None

\* Line 204: TeamMember.objects.filter(team__course=course), in id order.
TeamMembersOf(db, course) ==
    AscSeq({r \in DOMAIN db.TeamMember :
                db.Team[db.TeamMember[r].team].course = course})

\* Lines 295-298: one row per AssessmentResponse.objects.all().
ResponseRows(db) ==
    [r \in DOMAIN db.AssessmentResponse |->
        <<r, db.AssessmentResponse[r].assessment, db.AssessmentResponse[r].from_user,
          db.AssessmentResponse[r].to_user, db.AssessmentResponse[r].answers,
          db.AssessmentResponse[r].submitted>>]

\* Lines 288-298: the data rows of the eight files, the header aside.
WrittenFiles(db, csv_rows) ==
    [csv_rows EXCEPT !.assessment_responses = ResponseRows(db)]

\* A manifest that counts the rows collected for the files.
ManifestCountsOfRows(db, csv_rows) ==
    [k \in Range(ExportKinds) |-> Len(WrittenFiles(db, csv_rows)[k])]

\* Lines 302-311: the counts of the manifest, one count() per model.
ManifestCounts(db, csv_rows) ==
    [k \in Range(ExportKinds) |-> Len(db[ModelOf[k]])]

\* An export inside the atomic block: its exception undoes the generation.
ExportInsideAtomic(db, snapshot) == snapshot

\* Lines 279-314 follow the with block of line 131: an exception of the
\* export leaves the rows the block committed.
ExportFailure(db, snapshot) == db

(***************************************************************************)
(* Spec: invocations of the command.                                       *)
(***************************************************************************)
Levels == 1..4                              \* 4 is no preset
Semesters == {"Fall", "Summer"}             \* "Summer" is no choice
Years == {2025}
Seeds == 0..MaxSeed

ExportDirs == {None, "./seed_out"}

NoOpt ==
    [level |-> 0, semester |-> "", year |-> 0, seed |-> 0, purge |-> FALSE,
     export_csv |-> None]

NoLoc ==
    [teacher |-> 0, course |-> 0, num_students |-> 0, students |-> <<>>,
     members |-> <<>>, sizes |-> <<>>, teams |-> <<>>, assess |-> 0,
     questions |-> <<>>, purge_i |-> 1]

\* A parser without the choices of lines 93-94.
ParseAnything(level, semester) == TRUE

\* Lines 93-94: the choices of --level and --semester.
ParseOk(level, semester) == level \in {1, 2, 3} /\ semester \in {"Spring", "Fall"}

\* A run that purges whether asked to or not.
AfterSeedingPurging(o) == "purge"

\* Lines 103-104: the purge, when asked for, comes first.
AfterSeeding(o) == IF o.purge THEN "purge" ELSE "config"

\* A loop that purges before every course but the first.
AfterCoursePurging(i, courses_target, o) ==
    IF i < courses_target
    THEN IF o.purge /\ i > 0 THEN "purge" ELSE "teacher"
    ELSE "commit"

\* Lines 132 and 279: the next course, or the end of the atomic block.
AfterCourse(i, courses_target, o) ==
    IF i < courses_target THEN "teacher" ELSE "commit"

\* A run without the atomic block: what was created stays.
NoRollback(db, snapshot) == db

\* An atomic block entered before the purge: the rollback restores the rows
\* the store held when the command was invoked.
RollbackToInvocation(db, snapshot) == before

\* Line 131: an exception leaving transaction.atomic() restores the tables.
Rollback(db, snapshot) == snapshot

\* Line 30: the largest number of courses of a level.
CoursesMax == 2000

\* The positions inside the atomic block.
TxnPcs ==
    {"teacher", "course", "students", "members", "teams", "team_members",
     "assessment", "questions", "responses", "commit"}

Cfg == LEVEL_CONFIG[opt.level]

Logged(what, model) == log' = Append(log, <<what, model>>)

\* Lines 140, 152, 175, 203, 216, 239: if export, the rows join csv_rows[kind].
Exported(kind, rows) ==
    exp' = IF Export(opt) THEN [exp EXCEPT !.csv_rows[kind] = @ \o rows] ELSE exp

\* The options that decide what a run generates.
Generating(o) ==
    [level |-> o.level, semester |-> o.semester, year |-> o.year,
     seed |-> o.seed]

\* The locals of handle() are those of a process that has not run or has
\* ended.
Exited == <<rng, idx, loc, log, exp>> = <<0, 0, NoLoc, <<>>, NoExp>>

\* Lines 316 and 100-314: handle() has returned or raised and the process
\* ends; its locals are gone, the store stays.
Exit ==
    /\ pc \in {"done", "failed", "export_failed"}
    /\ ~Exited
    /\ rng' = 0
    /\ idx' = 0
    /\ loc' = NoLoc
    /\ log' = <<>>
    /\ exp' = NoExp
    /\ UNCHANGED <<part, samp, split, dos, store, pc, opt, txn, before, runs, hist>>

\* Lines 92-98: a new process parses the command line; a value outside the
\* choices is a CommandError raised before handle() is called.
Invoke ==
    /\ pc \in {"idle", "done", "failed", "rejected", "export_failed"}
    /\ Exited
    /\ runs < MaxRuns
    /\ \E level \in Levels, semester \in Semesters, year \in Years,
          seed \in Seeds, purge \in BOOLEAN, export_csv \in ExportDirs :
          /\ opt' = [level |-> level, semester |-> semester, year |-> year,
                     seed |-> seed, purge |-> purge, export_csv |-> export_csv]
          /\ pc' = IF ParseOk(level, semester) THEN "handle" ELSE "rejected"
    /\ runs' = runs + 1
    /\ before' = store
    /\ log' = <<>>
    /\ rng' = 0
    /\ idx' = 0
    /\ loc' = NoLoc
    /\ txn' = EmptyStore
    /\ exp' = NoExp
    /\ UNCHANGED <<part, samp, split, dos, store, hist>>

\* Lines 100-104.
Handle ==
    /\ pc = "handle"
    /\ rng' = Random(opt.seed)
    /\ pc' = AfterSeeding(opt)
    /\ UNCHANGED <<part, exp, samp, split, dos, store, opt, idx, loc, txn, before, log, runs, hist>>

\* Lines 321-331: one delete of _purge, committed on its own; purge_i is the
\* delete to run next, the first one again once _purge has returned.
PurgeStep ==
    /\ pc = "purge"
    /\ LET m == PurgeOrder[loc.purge_i]
       IN  /\ store' = [store EXCEPT ![m] = <<>>]
           /\ Logged("delete", m)
    /\ loc' = [loc EXCEPT !.purge_i = IF @ = Len(PurgeOrder) THEN 1 ELSE @ + 1]
    /\ pc' = IF loc.purge_i = Len(PurgeOrder) THEN "config" ELSE "purge"
    /\ UNCHANGED <<part, exp, samp, split, dos, opt, rng, idx, txn, before, runs, hist>>

\* A storage fault in a delete of _purge: the deletes made so far stay.
PurgeFault ==
    /\ pc = "purge"
    /\ pc' = "failed"
    /\ UNCHANGED <<part, exp, samp, split, dos, store, opt, rng, idx, loc, txn, before, log, runs, hist>>

\* Lines 106-131: the preset is looked up and the atomic block entered.
Config ==
    /\ pc = "config"
    /\ IF opt.level \in DOMAIN LEVEL_CONFIG
       THEN /\ txn' = store
            /\ idx' = 0
            /\ exp' = IF Export(opt) THEN [exp EXCEPT !.stage = "rows"] ELSE exp
            /\ pc' = AfterCourse(0, Cfg.courses, opt)
       ELSE /\ pc' = "failed"
            /\ UNCHANGED <<txn, idx, exp>>
    /\ UNCHANGED <<part, samp, split, dos, store, opt, rng, loc, before, log, runs, hist>>

\* Lines 113-114: outdir.mkdir raises; nothing has been generated yet.
MkdirFault ==
    /\ pc = "config"
    /\ opt.level \in DOMAIN LEVEL_CONFIG
    /\ Export(opt)
    /\ exp' = [exp EXCEPT !.stage = "mkdir_failed"]
    /\ pc' = "failed"
    /\ UNCHANGED <<part, samp, split, dos, store, opt, rng, idx, loc, txn, before, log, runs, hist>>

\* The User table of my_app.models as the data model describes it: a Person
\* has an identifier, an email, a display name and a role, and nothing ties
\* an email to one Person, so a row whose email the table already holds is
\* accepted.
UserAccepts(users, row) == TRUE

\* Lines 133-141.
CreateTeacher ==
    /\ pc = "teacher"
    /\ LET row == [email |-> TeacherEmail(idx), role |-> "teacher"]
       IN  IF UserAccepts(store.User, row)
           THEN /\ store' = [store EXCEPT !.User = Append(@, row)]
                /\ loc' = [loc EXCEPT !.teacher = Len(store.User) + 1]
                /\ Logged("create", "User")
                /\ Exported("users",
                            <<<<Len(store.User) + 1, TeacherEmail(idx), "teacher">>>>)
                /\ pc' = "course"
           ELSE /\ store' = Rollback(store, txn)
                /\ pc' = "failed"
                /\ UNCHANGED <<loc, log, exp>>
    /\ UNCHANGED <<part, samp, split, dos, opt, rng, idx, txn, before, runs, hist>>

\* Lines 144-156.
CreateCourse ==
    /\ pc = "course"
    /\ store' = [store EXCEPT !.Course =
                    Append(@, [course_number |-> CourseNumber(idx),
                               course_semester |-> opt.semester,
                               course_year |-> opt.year,
                               teacher |-> loc.teacher])]
    /\ loc' = [loc EXCEPT !.course = Len(store.Course) + 1]
    /\ Logged("create", "Course")
    /\ Exported("courses", <<<<Len(store.Course) + 1, CourseNumber(idx),
                               opt.semester, opt.year, loc.teacher>>>>)
    /\ pc' = "students"
    /\ UNCHANGED <<part, samp, split, dos, opt, rng, idx, txn, before, runs, hist>>

\* Lines 159-169: the student count is drawn, the students created in bulk
\* and re-read by email prefix.
CreateStudents ==
    /\ pc = "students"
    /\ LET d == RandInt(rng, Cfg.students_min, Cfg.students_max)
           cn == store.Course[loc.course].course_number
           new == [j \in 1..d.val |->
                     [email |-> StudentEmail(cn, j - 1), role |-> "student"]]
           db == [store EXCEPT !.User = @ \o new]
       IN  /\ rng' = d.rng
           /\ IF \A j \in DOMAIN new : UserAccepts(store.User, new[j])
              THEN /\ store' = db
                   /\ loc' = [loc EXCEPT !.num_students = d.val,
                                         !.students = StudentsOf(db, cn)]
                   /\ Logged("create", "User")
                   /\ pc' = "members"
              ELSE /\ store' = Rollback(store, txn)
                   /\ pc' = "failed"
                   /\ UNCHANGED <<loc, log>>
    /\ UNCHANGED <<part, exp, samp, split, dos, opt, idx, txn, before, runs, hist>>

\* Lines 171-177.
CreateMembers ==
    /\ pc = "members"
    /\ LET new == [k \in DOMAIN loc.students |->
                     [course |-> loc.course, user |-> loc.students[k]]]
           db == [store EXCEPT !.CourseMember = @ \o new]
           members == MembersOf(db, loc.course)
       IN  /\ store' = db
           /\ loc' = [loc EXCEPT !.members = members]
           /\ Exported("course_members",
                       [k \in DOMAIN members |->
                           <<members[k], loc.course, db.CourseMember[members[k]].user>>])
    /\ Logged("create", "CourseMember")
    /\ pc' = "teams"
    /\ UNCHANGED <<part, samp, split, dos, opt, rng, idx, txn, before, runs, hist>>

\* Lines 180-188 with the shuffle of the members made first and the sizes
\* drawn after it.
CreateTeamsShuffleFirst ==
    /\ pc = "teams"
    /\ LET sh == Shuffle(loc.members, rng)
           p == partition_into_teams(loc.num_students, Cfg.team_min,
                                     Cfg.team_max, sh.rng)
           new == [t \in DOMAIN p.sizes |->
                     [course |-> loc.course, team_name |-> t]]
           db == [store EXCEPT !.Team = @ \o new]
       IN  IF p.ok
           THEN /\ rng' = p.rng
                /\ store' = db
                /\ loc' = [loc EXCEPT !.sizes = p.sizes, !.members = sh.val,
                                      !.teams = TeamsOf(db, loc.course)]
                /\ Logged("create", "Team")
                /\ pc' = "team_members"
           ELSE /\ rng' = p.rng
                /\ store' = Rollback(store, txn)
                /\ pc' = "failed"
                /\ UNCHANGED <<loc, log>>
    /\ UNCHANGED <<part, exp, samp, split, dos, opt, idx, txn, before, runs, hist>>

\* Lines 180-188: the sizes, the shuffle of the members, the teams.  A failed
\* assert of the partitioner leaves the atomic block with an exception.
CreateTeams ==
    /\ pc = "teams"
    /\ LET p == partition_into_teams(loc.num_students, Cfg.team_min,
                                     Cfg.team_max, rng)
           sh == Shuffle(loc.members, p.rng)
           new == [t \in DOMAIN p.sizes |->
                     [course |-> loc.course, team_name |-> t]]
           db == [store EXCEPT !.Team = @ \o new]
       IN  IF p.ok
           THEN /\ rng' = sh.rng
                /\ store' = db
                /\ loc' = [loc EXCEPT !.sizes = p.sizes, !.members = sh.val,
                                      !.teams = TeamsOf(db, loc.course)]
                /\ Logged("create", "Team")
                /\ pc' = "team_members"
           ELSE /\ rng' = p.rng
                /\ store' = Rollback(store, txn)
                /\ pc' = "failed"
                /\ UNCHANGED <<loc, log>>
    /\ UNCHANGED <<part, exp, samp, split, dos, opt, idx, txn, before, runs, hist>>

\* Lines 194-205: sizes[t_idx] raises IndexError past the end of sizes.
CreateTeamMembers ==
    /\ pc = "team_members"
    /\ IF Len(loc.teams) <= Len(loc.sizes)
       THEN LET db == [store EXCEPT !.TeamMember =
                          @ \o Chunks(loc.teams, loc.sizes, loc.members, 0)]
                tms == TeamMembersOf(db, loc.course)
            IN  /\ store' = db
                /\ Exported("team_members",
                            [k \in DOMAIN tms |->
                                <<tms[k], db.TeamMember[tms[k]].team,
                                  db.TeamMember[tms[k]].course_member>>])
                /\ Logged("create", "TeamMember")
                /\ pc' = "assessment"
       ELSE /\ store' = Rollback(store, txn)
            /\ pc' = "failed"
            /\ UNCHANGED <<log, exp>>
    /\ UNCHANGED <<part, samp, split, dos, opt, rng, idx, loc, txn, before, runs, hist>>

\* Lines 208-222.
CreateAssessment ==
    /\ pc = "assessment"
    /\ store' = [store EXCEPT !.Assessment =
                    Append(@, [course |-> loc.course, status |-> "published",
                               results_released |-> FALSE])]
    /\ loc' = [loc EXCEPT !.assess = Len(store.Assessment) + 1]
    /\ Logged("create", "Assessment")
    /\ Exported("assessments", <<<<Len(store.Assessment) + 1, loc.course,
                                   "published", FALSE>>>>)
    /\ pc' = "questions"
    /\ UNCHANGED <<part, samp, split, dos, opt, rng, idx, txn, before, runs, hist>>

\* Lines 224-243.
CreateQuestions ==
    /\ pc = "questions"
    /\ LET new == [k \in 1..NumPrompts |->
                     [assessment |-> loc.assess, question_type |-> "likert",
                      content |-> k]]
           db == [store EXCEPT !.AssessmentQuestion = @ \o new]
           questions == QuestionsOf(db, loc.assess)
       IN  /\ store' = db
           /\ loc' = [loc EXCEPT !.questions = questions]
           /\ Exported("assessment_questions",
                       [k \in DOMAIN questions |->
                           <<questions[k], loc.assess, "likert",
                             db.AssessmentQuestion[questions[k]].content>>])
    /\ Logged("create", "AssessmentQuestion")
    /\ pc' = "responses"
    /\ UNCHANGED <<part, samp, split, dos, opt, rng, idx, txn, before, runs, hist>>

\* Lines 245-277: the responses of the course, then the next course.
CreateResponses ==
    /\ pc = "responses"
    /\ LET b == BuildResponses(store, AllPairs(store, ByTeamKeys(store, loc.course)),
                               loc.assess, loc.questions, rng)
       IN  /\ store' = [store EXCEPT !.AssessmentResponse = @ \o b.val]
           /\ rng' = b.rng
    /\ Logged("create", "AssessmentResponse")
    /\ idx' = idx + 1
    /\ pc' = AfterCourse(idx + 1, Cfg.courses, opt)
    /\ UNCHANGED <<part, exp, samp, split, dos, opt, loc, txn, before, runs, hist>>

\* Lines 131, 279 and 316: the atomic block ends; without export the command
\* completes.
Commit ==
    /\ pc = "commit"
    /\ pc' = IF Export(opt) THEN "write_csv" ELSE "done"
    /\ hist' = Append(hist, [opt |-> Generating(opt), from |-> txn, store |-> store])
    /\ UNCHANGED <<part, exp, samp, split, dos, store, opt, rng, idx, loc, txn, before, log, runs>>

\* Lines 281-298: the eight files are written.
WriteCsv ==
    /\ pc = "write_csv"
    /\ exp' = [exp EXCEPT !.stage = "files",
                          !.files = WrittenFiles(store, exp.csv_rows)]
    /\ pc' = "manifest"
    /\ UNCHANGED <<part, samp, split, dos, store, opt, rng, idx, loc, txn, before, log, runs, hist>>

\* Lines 299-316: the manifest is written and the command completes.
WriteManifest ==
    /\ pc = "manifest"
    /\ exp' = [exp EXCEPT !.stage = "manifest",
                          !.manifest = ManifestCounts(store, exp.csv_rows)]
    /\ pc' = "done"
    /\ UNCHANGED <<part, samp, split, dos, store, opt, rng, idx, loc, txn, before, log, runs, hist>>

\* An I/O fault in open(), write() or write_text() of lines 282-313.
ExportFault ==
    /\ pc \in {"write_csv", "manifest"}
    /\ store' = ExportFailure(store, txn)
    /\ pc' = "export_failed"
    /\ UNCHANGED <<part, exp, samp, split, dos, opt, rng, idx, loc, txn, before, log, runs, hist>>

\* A storage fault in a statement of the atomic block: the exception leaves
\* the block and the transaction is rolled back.
Fault ==
    /\ pc \in TxnPcs
    /\ store' = Rollback(store, txn)
    /\ pc' = "failed"
    /\ UNCHANGED <<part, exp, samp, split, dos, opt, rng, idx, loc, txn, before, log, runs, hist>>

Init ==
    /\ part = NoPart
    /\ store = EmptyStore
    /\ pc = "idle"
    /\ opt = NoOpt
    /\ rng = 0
    /\ idx = 0
    /\ loc = NoLoc
    /\ txn = EmptyStore
    /\ before = EmptyStore
    /\ log = <<>>
    /\ runs = 0
    /\ hist = <<>>
    /\ exp = NoExp
    /\ samp = NoSamp
    /\ split = NoSplit
    /\ dos = NoDos

Next ==
    \/ Invoke
    \/ Handle
    \/ PurgeStep
    \/ PurgeFault
    \/ Config
    \/ MkdirFault
    \/ CreateTeacher
    \/ CreateCourse
    \/ CreateStudents
    \/ CreateMembers
    \/ CreateTeams
    \/ CreateTeamMembers
    \/ CreateAssessment
    \/ CreateQuestions
    \/ CreateResponses
    \/ Commit
    \/ WriteCsv
    \/ WriteManifest
    \/ ExportFault
    \/ Fault
    \/ Exit

Spec == Init /\ [][Next]_vars

(***************************************************************************)
(* SpecFresh: the invocations whose generation begins on a store without   *)
(* rows, either because --purge is given or because the store is empty.    *)
(***************************************************************************)
InvokeFresh ==
    /\ Invoke
    /\ opt'.purge \/ \A m \in Models : store[m] = <<>>

NextFresh ==
    \/ InvokeFresh
    \/ Handle
    \/ PurgeStep
    \/ PurgeFault
    \/ Config
    \/ MkdirFault
    \/ CreateTeacher
    \/ CreateCourse
    \/ CreateStudents
    \/ CreateMembers
    \/ CreateTeams
    \/ CreateTeamMembers
    \/ CreateAssessment
    \/ CreateQuestions
    \/ CreateResponses
    \/ Commit
    \/ WriteCsv
    \/ WriteManifest
    \/ ExportFault
    \/ Fault
    \/ Exit

SpecFresh == Init /\ [][NextFresh]_vars

InitPart ==
    /\ part \in {[NoPart EXCEPT !.pc = "call", !.n = i.n,
                                !.min_team = i.min_team,
                                !.max_team = i.max_team] : i \in PartInputs}
    /\ store = EmptyStore
    /\ pc = "idle"
    /\ opt = NoOpt
    /\ rng = 0
    /\ idx = 0
    /\ loc = NoLoc
    /\ txn = EmptyStore
    /\ before = EmptyStore
    /\ log = <<>>
    /\ runs = 0
    /\ hist = <<>>
    /\ exp = NoExp
    /\ samp = NoSamp
    /\ split = NoSplit
    /\ dos = NoDos

SpecPart == InitPart /\ [][NextPart]_vars

\* SpecPart with the loop scheduled: a call that can take a step takes it.
SpecPartFair == SpecPart /\ WF_vars(NextPart)

(***************************************************************************)
(* SpecPreset: one call of partition_into_teams for every student count    *)
(* and team range of the three levels as the file writes them, and every   *)
(* outcome of rng.shuffle.                                                 *)
(***************************************************************************)
InitPreset ==
    /\ part \in {[NoPart EXCEPT !.pc = "call", !.n = i.n,
                                !.min_team = i.min_team,
                                !.max_team = i.max_team] : i \in PresetInputs}
    /\ store = EmptyStore
    /\ pc = "idle"
    /\ opt = NoOpt
    /\ rng = 0
    /\ idx = 0
    /\ loc = NoLoc
    /\ txn = EmptyStore
    /\ before = EmptyStore
    /\ log = <<>>
    /\ runs = 0
    /\ hist = <<>>
    /\ exp = NoExp
    /\ samp = NoSamp
    /\ split = NoSplit
    /\ dos = NoDos

SpecPreset == InitPreset /\ [][NextPreset]_vars

(***************************************************************************)
(* SpecScore: one call of biased_score, for every max_score within the     *)
(* bound and every value of [1, max_score] on the grain that the           *)
(* triangular draw may yield.                                              *)
(***************************************************************************)
notSamp ==
    <<part, store, pc, opt, rng, idx, loc, txn, before, log, runs, hist, exp, split,
      dos>>

\* Line 75: a = rng.triangular(1, max_score, max_score), a value between
\* low and high, low itself when the two are equal.
ScoreDraw ==
    /\ samp.pc = "call"
    /\ \E a \in Grain..(Grain * samp.max_score) :
          samp' = [samp EXCEPT !.pc = "drawn", !.a = a]
    /\ UNCHANGED notSamp

\* Line 76.
ScoreReturn ==
    /\ samp.pc = "drawn"
    /\ samp' = [samp EXCEPT !.pc = "return",
                            !.val = ClampedRound(samp.a, Grain, samp.max_score)]
    /\ UNCHANGED notSamp

NextScore == ScoreDraw \/ ScoreReturn

InitScore ==
    /\ samp \in {[NoSamp EXCEPT !.pc = "call", !.max_score = m] : m \in 1..MaxMaxScore}
    /\ part = NoPart
    /\ store = EmptyStore
    /\ pc = "idle"
    /\ opt = NoOpt
    /\ rng = 0
    /\ idx = 0
    /\ loc = NoLoc
    /\ txn = EmptyStore
    /\ before = EmptyStore
    /\ log = <<>>
    /\ runs = 0
    /\ hist = <<>>
    /\ exp = NoExp
    /\ split = NoSplit
    /\ dos = NoDos

SpecScore == InitScore /\ [][NextScore]_vars

(***************************************************************************)
(* SpecSplits: one call of _rand_team_splits (test_browser_usability.py),  *)
(* for every input within the bounds and every outcome of rng.randint.     *)
(***************************************************************************)
notSplit ==
    <<part, store, pc, opt, rng, idx, loc, txn, before, log, runs, hist, exp, samp,
      dos>>

\* The size as drawn, without the rule of lines 115-116.
SplitSizeNoAbsorb(size, remaining, team_min) == size

\* Lines 115-116: a remainder that is not zero and is below team_min goes
\* into this team.
SplitSize(size, remaining, team_min) ==
    IF remaining - size # 0 /\ remaining - size < team_min
    THEN remaining ELSE size

\* Lines 111-112: the bounds of the draw.
SplitLo(team_min, team_max) == Max(team_min, Min(team_max, 1))

SplitHi(team_min, team_max, remaining) ==
    Min(team_max, Max(team_min, remaining))

\* Lines 110-118: one pass of the while loop under some outcome of
\* rng.randint(lo, hi).
SplitStep ==
    /\ split.pc = "while"
    /\ split.remaining > 0
    /\ \E drawn \in SplitLo(split.team_min, split.team_max)
                     ..SplitHi(split.team_min, split.team_max, split.remaining) :
          LET size == SplitSize(drawn, split.remaining, split.team_min)
          IN  split' = [split EXCEPT !.sizes = Append(@, size),
                                     !.remaining = @ - size]
    /\ UNCHANGED notSplit

\* Lines 110 and 119: the while condition is false and sizes is returned.
SplitReturn ==
    /\ split.pc = "while"
    /\ split.remaining <= 0
    /\ split' = [split EXCEPT !.pc = "return"]
    /\ UNCHANGED notSplit

NextSplits == SplitStep \/ SplitReturn

\* Lines 103-109: the call, sizes empty and remaining = student_count.
InitSplits ==
    /\ split \in {[NoSplit EXCEPT !.pc = "while", !.student_count = n,
                                  !.team_min = lo, !.team_max = hi,
                                  !.remaining = n] :
                     n \in 0..MaxCount, lo \in 1..MaxSplit,
                     hi \in 1..MaxSplit}
    /\ split.team_min <= split.team_max
    /\ part = NoPart
    /\ store = EmptyStore
    /\ pc = "idle"
    /\ opt = NoOpt
    /\ rng = 0
    /\ idx = 0
    /\ loc = NoLoc
    /\ txn = EmptyStore
    /\ before = EmptyStore
    /\ log = <<>>
    /\ runs = 0
    /\ hist = <<>>
    /\ exp = NoExp
    /\ samp = NoSamp
    /\ dos = NoDos

SpecSplits == InitSplits /\ [][NextSplits]_vars

\* SpecSplits with the loop scheduled: a call that can take a step takes it.
SpecSplitsFair == SpecSplits /\ WF_vars(NextSplits)

(***************************************************************************)
(* SpecDos: test_dos_sustained_load (test_security.py).  The main thread   *)
(* submits calls of single_request to a pool of Concurrency threads; each  *)
(* `x += 1` on a nonlocal is a read of x and a later write of x.           *)
(***************************************************************************)
notDos ==
    <<part, store, pc, opt, rng, idx, loc, txn, before, log, runs, hist, exp, samp,
      split>>

\* Line 198: what self.session.get does, a response or an exception.
Responses ==
    {[raised |-> FALSE, status_code |-> 200],
     [raised |-> FALSE, status_code |-> 500],
     [raised |-> TRUE, status_code |-> 0]}

\* Line 200: the test of the try branch.
IsSuccess(r) == ~r.raised /\ 200 <= r.status_code /\ r.status_code < 400

\* The calls of single_request that a thread of the pool is running.
Running == {i \in DOMAIN dos.task : dos.task[i].pc \notin {"queued", "done"}}

\* Lines 207-208: the time is before stop_time and the for loop begins.
DosWhile ==
    /\ dos.pc = "while"
    /\ dos.rounds < MaxRounds
    /\ dos' = [dos EXCEPT !.pc = "for", !.k = 0, !.rounds = @ + 1]
    /\ UNCHANGED notDos

\* Lines 208-210: one executor.submit(single_request), and the sleep after
\* the last of a pass.
DosSubmit ==
    /\ dos.pc = "for"
    /\ dos' = [dos EXCEPT
                 !.task = Append(@, [pc |-> "queued",
                                     r |-> [raised |-> FALSE, status_code |-> 0],
                                     tmp |-> 0]),
                 !.submitted = @ + 1,
                 !.k = @ + 1,
                 !.pc = IF dos.k + 1 = Concurrency THEN "while" ELSE "for"]
    /\ UNCHANGED notDos

\* Line 207: the time has passed stop_time; the with block is left and the
\* executor shuts down.
DosStop ==
    /\ dos.pc = "while"
    /\ dos' = [dos EXCEPT !.pc = "shutdown"]
    /\ UNCHANGED notDos

\* Line 206: a free thread of the pool takes the oldest queued call.
DosStart ==
    /\ Cardinality(Running) < Concurrency
    /\ \E i \in DOMAIN dos.task :
          /\ dos.task[i].pc = "queued"
          /\ \A j \in 1..(i - 1) : dos.task[j].pc # "queued"
          /\ dos' = [dos EXCEPT !.task[i].pc = "get"]
    /\ UNCHANGED notDos

\* Line 198: the request returns a response or raises.
DosGet ==
    /\ \E i \in DOMAIN dos.task, r \in Responses :
          /\ dos.task[i].pc = "get"
          /\ dos' = [dos EXCEPT !.task[i].pc = "load_sent", !.task[i].r = r]
    /\ UNCHANGED notDos

\* Lines 199 and 205, first half of total_sent += 1: the value is read.
DosLoadSent ==
    /\ \E i \in DOMAIN dos.task :
          /\ dos.task[i].pc = "load_sent"
          /\ dos' = [dos EXCEPT !.task[i].pc = "store_sent",
                                !.task[i].tmp = dos.total_sent]
    /\ UNCHANGED notDos

\* Lines 199 and 205, second half: the value read plus one is written.
DosStoreSent ==
    /\ \E i \in DOMAIN dos.task :
          /\ dos.task[i].pc = "store_sent"
          /\ dos' = [dos EXCEPT !.task[i].pc = "load_result",
                                !.total_sent = dos.task[i].tmp + 1]
    /\ UNCHANGED notDos

\* Lines 200-203 and 206, first half of total_success += 1 or of
\* total_errors += 1.
DosLoadResult ==
    /\ \E i \in DOMAIN dos.task :
          /\ dos.task[i].pc = "load_result"
          /\ dos' = [dos EXCEPT
                       !.task[i].pc = "store_result",
                       !.task[i].tmp = IF IsSuccess(dos.task[i].r)
                                       THEN dos.total_success
                                       ELSE dos.total_errors]
    /\ UNCHANGED notDos

\* Lines 200-203 and 206, second half; the call returns.
DosStoreResult ==
    /\ \E i \in DOMAIN dos.task :
          /\ dos.task[i].pc = "store_result"
          /\ dos' = IF IsSuccess(dos.task[i].r)
                    THEN [dos EXCEPT !.task[i].pc = "done",
                                     !.total_success = dos.task[i].tmp + 1]
                    ELSE [dos EXCEPT !.task[i].pc = "done",
                                     !.total_errors = dos.task[i].tmp + 1]
    /\ UNCHANGED notDos

\* Lines 206 and 212: the with block returns once every submitted call has
\* run, and the totals are read.
DosShutdown ==
    /\ dos.pc = "shutdown"
    /\ \A i \in DOMAIN dos.task : dos.task[i].pc = "done"
    /\ dos' = [dos EXCEPT !.pc = "report"]
    /\ UNCHANGED notDos

NextDos ==
    \/ DosWhile
    \/ DosSubmit
    \/ DosStop
    \/ DosStart
    \/ DosGet
    \/ DosLoadSent
    \/ DosStoreSent
    \/ DosLoadResult
    \/ DosStoreResult
    \/ DosShutdown

\* Lines 188-194: the three counters at 0, the loop about to begin.
InitDos ==
    /\ dos = [NoDos EXCEPT !.pc = "while"]
    /\ part = NoPart
    /\ store = EmptyStore
    /\ pc = "idle"
    /\ opt = NoOpt
    /\ rng = 0
    /\ idx = 0
    /\ loc = NoLoc
    /\ txn = EmptyStore
    /\ before = EmptyStore
    /\ log = <<>>
    /\ runs = 0
    /\ hist = <<>>
    /\ exp = NoExp
    /\ samp = NoSamp
    /\ split = NoSplit

SpecDos == InitDos /\ [][NextDos]_vars

(***************************************************************************)
(* The claims.                                                             *)
(***************************************************************************)

\* C1 (as claimed): for every n >= 0 and positive min_size <= max_size and
\* every outcome of the shuffles, partition_into_teams returns sizes that
\* sum to n; its assert never fails.
C1_SumAlwaysN ==
    /\ part.pc # "raise"
    /\ part.pc = "return" => Sum(part.sizes) = part.n

\* C2: for positive min_size <= max_size and n >= min_size, every size of
\* the sequence partition_into_teams returns lies in [min_size, max_size],
\* whatever the shuffles.
C2_SizesWithinBounds ==
    (part.pc = "return" /\ part.n >= part.min_team) =>
        \A i \in DOMAIN part.sizes :
            part.min_team <= part.sizes[i] /\ part.sizes[i] <= part.max_team

\* C2's case: a call with n >= min_size whose loop ran at least twice and
\* appended a team, returned.
C2_Witness ==
    /\ part.pc = "return"
    /\ part.n >= part.min_team
    /\ part.passes >= 2
    /\ Len(part.sizes) > PartitionInit(part.n, part.min_team, part.max_team).team_count

\* The eight entity kinds of the data model, in the order the spec gives for
\* their deletion: Response, Question, Assessment, TeamAssignment, Team,
\* Membership, Course, Person.
EightKinds ==
    <<"AssessmentResponse", "AssessmentQuestion", "Assessment", "TeamMember",
      "Team", "CourseMember", "Course", "User">>

\* No row of the eight kinds is held.
AllEmpty(db) == \A k \in DOMAIN EightKinds : db[EightKinds[k]] = <<>>

\* The TeamMember rows of a CourseMember row.
AssignmentsOf(db, m) ==
    {r \in DOMAIN db.TeamMember : db.TeamMember[r].course_member = m}

\* The TeamMember rows of a team.
RowsOfTeam(db, t) == {r \in DOMAIN db.TeamMember : db.TeamMember[r].team = t}

\* The users of the members of a team.
UsersOfTeam(db, t) ==
    {db.CourseMember[db.TeamMember[r].course_member].user : r \in RowsOfTeam(db, t)}

\* The generation of the invocation under way began on a store without rows.
OnPurgedStore == opt.purge \/ AllEmpty(before)

\* C3: after a generation run on a purged store completes, every membership
\* of every course is assigned to exactly one team, and that team belongs to
\* the membership's course.
C3_TeamsPartitionMemberships ==
    (pc = "done" /\ OnPurgedStore) =>
        \A m \in DOMAIN store.CourseMember :
            /\ Cardinality(AssignmentsOf(store, m)) = 1
            /\ \A r \in AssignmentsOf(store, m) :
                   store.Team[store.TeamMember[r].team].course
                       = store.CourseMember[m].course

\* C3's case: a purge over earlier rows, then a completed generation with a
\* course of two teams.
C3_Witness ==
    /\ pc = "done"
    /\ opt.purge
    /\ before.TeamMember # <<>>
    /\ \E c \in DOMAIN store.Course : Len(TeamsOf(store, c)) >= 2

\* The responses of the assessments of team t's course whose rater is a
\* member of t.
ResponsesOfTeam(db, t) ==
    {r \in DOMAIN db.AssessmentResponse :
        /\ db.Assessment[db.AssessmentResponse[r].assessment].course = db.Team[t].course
        /\ db.AssessmentResponse[r].from_user \in UsersOfTeam(db, t)}

\* The teams the run under way has created: the rows past those the table
\* held when the atomic block was entered.
TeamsOfRun == {t \in DOMAIN store.Team : t > Len(txn.Team)}

\* C4: after a generation run, every team of the run with k members has
\* exactly k*(k-1) responses whose rater is in the team, one per ordered
\* pair of distinct teammates, each with a score for every question of the
\* course's assessment and marked submitted; no response has rater = ratee.
C4_ResponsesComplete ==
    pc = "done" =>
        /\ \A t \in TeamsOfRun :
            LET U == UsersOfTeam(store, t)
                k == Cardinality(RowsOfTeam(store, t))
                R == ResponsesOfTeam(store, t)
            IN  /\ Cardinality(R) = k * (k - 1)
                /\ \A a \in U, b \in U :
                       a # b =>
                           Cardinality({r \in R :
                               /\ store.AssessmentResponse[r].from_user = a
                               /\ store.AssessmentResponse[r].to_user = b}) = 1
                /\ \A r \in R :
                       LET row == store.AssessmentResponse[r]
                       IN  /\ DOMAIN row.answers =
                                  {q \in DOMAIN store.AssessmentQuestion :
                                      store.AssessmentQuestion[q].assessment = row.assessment}
                           /\ Cardinality(DOMAIN row.answers) = NumPrompts
                           /\ \A q \in DOMAIN row.answers : row.answers[q] \in 1..MaxScore
                           /\ row.submitted
        /\ \A r \in DOMAIN store.AssessmentResponse :
               store.AssessmentResponse[r].from_user # store.AssessmentResponse[r].to_user

\* C4's case: a completed run that created a team of three and a team of
\* two.
C4_Witness ==
    /\ pc = "done"
    /\ \E t \in TeamsOfRun : Cardinality(RowsOfTeam(store, t)) = 3
    /\ \E t \in TeamsOfRun : Cardinality(RowsOfTeam(store, t)) = 2

\* C5: a failure during the generation of a run invoked without purge leaves
\* the store holding exactly the rows it held before the run.
C5_FailureLeavesStoreAsBefore ==
    (pc = "failed" /\ ~opt.purge) => store = before

\* C5's case: a run without purge, over the rows of an earlier run, failed
\* after it had created the questions of a course.
C5_Witness ==
    /\ pc = "failed"
    /\ ~opt.purge
    /\ before.AssessmentResponse # <<>>
    /\ <<"create", "AssessmentQuestion">> \in Range(log)

\* Two completed runs had the same seed, level, semester and year.
SameInputs(a, b) ==
    /\ a.opt.seed = b.opt.seed
    /\ a.opt.level = b.opt.level
    /\ a.opt.semester = b.opt.semester
    /\ a.opt.year = b.opt.year

C7_PurgeThenTarget ==
    opt.purge =>
        /\ pc = "config" => AllEmpty(store)
        /\ pc = "done" => Len(store.Course) = LEVEL_CONFIG[opt.level].courses

\* C7's case: a run with purge completed over a store that held another
\* number of courses than the level's target.
C7_Witness ==
    /\ pc = "done"
    /\ opt.purge
    /\ before.Course # <<>>
    /\ Len(before.Course) # LEVEL_CONFIG[opt.level].courses

\* The options of the invocation under way are outside the three presets or
\* the two semester labels.
InvalidOptions ==
    /\ runs > 0
    /\ opt.level \notin {1, 2, 3} \/ opt.semester \notin {"Spring", "Fall"}

\* C8: an invocation with a level or a semester outside the choices is
\* rejected before any work: nothing is created and nothing deleted, purge
\* or not.
C8_InvalidOptionsRejected ==
    InvalidOptions => (pc = "rejected" /\ store = before /\ log = <<>>)

\* C8's case: an invocation with an unknown level and purge, over a store
\* with rows, was rejected.
C8_Witness ==
    /\ pc = "rejected"
    /\ opt.level = 4
    /\ opt.purge
    /\ before.User # <<>>

\* C9: in a run with purge every delete precedes the first create, and no
\* delete follows a create.
C9_PurgeBeforeGeneration ==
    opt.purge =>
        /\ \A i \in DOMAIN log, j \in DOMAIN log :
               (log[i][1] = "create" /\ log[j][1] = "delete") => j < i
        /\ pc = "purge" => \A i \in DOMAIN log : log[i][1] = "delete"

\* C9's case: a run with purge over a store with rows deleted, then created
\* the rows of two courses.
C9_Witness ==
    /\ pc = "done"
    /\ opt.purge
    /\ before.Course # <<>>
    /\ <<"delete", "User">> \in Range(log)
    /\ idx = 2

\* No row of db refers to a row that is not in db.
NoDangling(db) ==
    /\ \A i \in DOMAIN db.Course : db.Course[i].teacher \in DOMAIN db.User
    /\ \A i \in DOMAIN db.CourseMember :
           /\ db.CourseMember[i].course \in DOMAIN db.Course
           /\ db.CourseMember[i].user \in DOMAIN db.User
    /\ \A i \in DOMAIN db.Team : db.Team[i].course \in DOMAIN db.Course
    /\ \A i \in DOMAIN db.TeamMember :
           /\ db.TeamMember[i].team \in DOMAIN db.Team
           /\ db.TeamMember[i].course_member \in DOMAIN db.CourseMember
    /\ \A i \in DOMAIN db.Assessment : db.Assessment[i].course \in DOMAIN db.Course
    /\ \A i \in DOMAIN db.AssessmentQuestion :
           db.AssessmentQuestion[i].assessment \in DOMAIN db.Assessment
    /\ \A i \in DOMAIN db.AssessmentResponse :
           /\ db.AssessmentResponse[i].assessment \in DOMAIN db.Assessment
           /\ db.AssessmentResponse[i].from_user \in DOMAIN db.User
           /\ db.AssessmentResponse[i].to_user \in DOMAIN db.User

\* The deletes of the eight kinds that the invocation under way has issued.
EightDeleted ==
    SelectSeq(log, LAMBDA e : e[1] = "delete" /\ e[2] \in Range(EightKinds))

\* C10: the purge empties the eight kinds in the order Response, Question,
\* Assessment, TeamAssignment, Team, Membership, Course, Person, and in
\* every state of the purge no row refers to a row of an emptied kind.
C10_PurgeInDependencyOrder ==
    (opt.purge /\ pc \in {"purge", "config"}) =>
        /\ Len(EightDeleted) <= Len(EightKinds)
        /\ \A k \in DOMAIN EightDeleted :
               /\ EightDeleted[k][2] = EightKinds[k]
               /\ store[EightKinds[k]] = <<>>
        /\ pc = "config" => Len(EightDeleted) = Len(EightKinds)
        /\ NoDangling(store)

\* C10's case: the purge of a store with rows of every kind has emptied the
\* responses, questions, assessments and team assignments, not yet the rest.
C10_Witness ==
    /\ pc = "purge"
    /\ before.AssessmentResponse # <<>>
    /\ Len(EightDeleted) = 4
    /\ store.TeamMember = <<>>
    /\ store.Team # <<>>
    /\ store.User # <<>>

\* The ids of the rows of model m that the run under way has generated: the
\* rows past those the table held when the atomic block was entered.
GeneratedIds(m) == {i \in DOMAIN store[m] : i > Len(txn[m])}

\* The ids in the first column of the data rows of a written file.
IdsIn(file) == {file[i][1] : i \in DOMAIN file}

\* C11 (as claimed): when an export directory is given, each of the eight
\* written files holds exactly one data row for every record of its kind
\* that the run generated.
C11_FilesHoldGeneratedRows ==
    exp.stage \in {"files", "manifest"} =>
        \A k \in Range(ExportKinds) :
            /\ IdsIn(exp.files[k]) = GeneratedIds(ModelOf[k])
            /\ Len(exp.files[k]) = Cardinality(GeneratedIds(ModelOf[k]))

\* C12: for each of the eight kinds, the count in manifest.json is the number
\* of rows of that kind in the store when the export is made, whatever the
\* store held before the run and with or without purge.
C12_ManifestCountsLive ==
    exp.stage = "manifest" =>
        \A k \in Range(ExportKinds) : exp.manifest[k] = Len(store[ModelOf[k]])

\* C12's case: a run without purge over the rows of an earlier run wrote a
\* manifest that counts more users than users.csv has rows.
C12_Witness ==
    /\ exp.stage = "manifest"
    /\ ~opt.purge
    /\ before.User # <<>>
    /\ exp.manifest.users > Len(exp.files.users)
    /\ exp.manifest.teams > 0

\* a is an initial segment of b.
IsPrefix(a, b) == Len(a) <= Len(b) /\ SubSeq(b, 1, Len(a)) = a

\* C13: when the export of a run fails, the generation is not undone: the
\* store holds the rows the run committed, every course of the level among
\* them; a failure to create the directory comes before any row is created.
C13_ExportFailureKeepsGeneration ==
    /\ pc = "export_failed" =>
           /\ hist # <<>>
           /\ store = hist[Len(hist)].store
           /\ \A m \in Range(EightKinds) : IsPrefix(txn[m], store[m])
           /\ Len(store.Course) = Len(txn.Course) + Cfg.courses
           /\ Len(store.AssessmentQuestion) =
                  Len(txn.AssessmentQuestion) + NumPrompts * Cfg.courses
    /\ exp.stage = "mkdir_failed" =>
           /\ pc = "failed"
           /\ \A i \in DOMAIN log : log[i][1] # "create"
           /\ ~opt.purge => store = before

\* C13's case: a run without purge over the rows of an earlier run wrote the
\* eight files, then failed to write the manifest.
C13_Witness ==
    /\ pc = "export_failed"
    /\ exp.stage = "files"
    /\ ~opt.purge
    /\ before.Course # <<>>
    /\ Len(store.AssessmentResponse) > Len(before.AssessmentResponse)

\* The call of partition_into_teams has gone past its entry.
Entered == part.pc \notin {"none", "call"}

\* C14 (as claimed): for every n >= 0 with n < min_size the call returns
\* exactly the one-element sequence [n].
C14_BelowMinReturnsN ==
    (Entered /\ part.n < part.min_team) =>
        (part.pc = "return" /\ part.sizes = <<part.n>>)

\* C14 (amended): for every n > 0 with n < min_size the call returns exactly
\* the one-element sequence [n].
C14_PositiveBelowMinReturnsN ==
    (Entered /\ 0 < part.n /\ part.n < part.min_team) =>
        (part.pc = "return" /\ part.sizes = <<part.n>> /\ part.shuffles = 0)

\* C14's case: three students, teams of at least five, returned.
C14_Witness ==
    /\ part.pc = "return"
    /\ part.n = 3
    /\ part.min_team = 5
    /\ part.sizes = <<3>>

\* C15: for n = 0 and positive min_size <= max_size the call returns the
\* empty sequence and has made no random choice.
C15_ZeroReturnsEmpty ==
    (Entered /\ part.n = 0) =>
        (part.pc = "return" /\ part.sizes = <<>> /\ part.shuffles = 0
            /\ part.passes = 0)

\* C15's case: no student, teams of two to five, returned.
C15_Witness ==
    /\ part.pc = "return"
    /\ part.n = 0
    /\ part.min_team = 2
    /\ part.max_team = 5
    /\ part.sizes = <<>>

\* The teams of a course, as a set.
TeamSet(db, course) == {t \in DOMAIN db.Team : db.Team[t].course = course}

\* A user holds a membership of a course.
IsMember(db, course, u) ==
    \E m \in DOMAIN db.CourseMember :
        db.CourseMember[m].course = course /\ db.CourseMember[m].user = u

\* The teams of a course to which a user is assigned.
TeamsOfUser(db, course, u) ==
    {db.TeamMember[r].team :
        r \in {r \in DOMAIN db.TeamMember :
                  /\ db.CourseMember[db.TeamMember[r].course_member].user = u
                  /\ db.Team[db.TeamMember[r].team].course = course}}

\* C16: every response belongs to the assessment of a course in which its
\* rater and its ratee both hold a membership, and the two are assigned to
\* the same team of that course; no response links users of different teams
\* or of different courses.
C16_ResponsesWithinTeam ==
    \A r \in DOMAIN store.AssessmentResponse :
        LET row == store.AssessmentResponse[r]
            course == store.Assessment[row.assessment].course
            from_teams == TeamsOfUser(store, course, row.from_user)
        IN  /\ IsMember(store, course, row.from_user)
            /\ IsMember(store, course, row.to_user)
            /\ Cardinality(from_teams) = 1
            /\ TeamsOfUser(store, course, row.to_user) = from_teams

\* C16's case: a completed run without purge over the rows of an earlier
\* run, with responses in two courses, one of them with two teams.
C16_Witness ==
    /\ pc = "done"
    /\ ~opt.purge
    /\ before.AssessmentResponse # <<>>
    /\ Len(store.AssessmentResponse) > Len(before.AssessmentResponse)
    /\ \E c \in DOMAIN store.Course :
           /\ c > Len(before.Course)
           /\ Cardinality(TeamSet(store, c)) >= 2

\* The memberships of a course held by students.
StudentMemberships(db, course) ==
    {m \in DOMAIN db.CourseMember :
        /\ db.CourseMember[m].course = course
        /\ db.User[db.CourseMember[m].user].role = "student"}

\* C17: after a purge-and-generate run at level L there is a course, every
\* course has between students_min and students_max student memberships,
\* every student has exactly one membership, and no two memberships share
\* their course and user.
C17_MembershipsPerCourse ==
    (pc = "done" /\ opt.purge) =>
        /\ store.Course # <<>>
        /\ \A c \in DOMAIN store.Course :
               LET k == Cardinality(StudentMemberships(store, c))
               IN  Cfg.students_min <= k /\ k <= Cfg.students_max /\ k >= 1
        /\ \A u \in DOMAIN store.User :
               store.User[u].role = "student" =>
                   Cardinality({m \in DOMAIN store.CourseMember :
                                   store.CourseMember[m].user = u}) = 1
        /\ \A m1 \in DOMAIN store.CourseMember, m2 \in DOMAIN store.CourseMember :
               (/\ store.CourseMember[m1].course = store.CourseMember[m2].course
                /\ store.CourseMember[m1].user = store.CourseMember[m2].user)
                   => m1 = m2

\* C17's case: a purge-and-generate run at level 3 over the rows of an
\* earlier run completed with two courses of different sizes.
C17_Witness ==
    /\ pc = "done"
    /\ opt.purge
    /\ opt.level = 3
    /\ before.CourseMember # <<>>
    /\ \E c1 \in DOMAIN store.Course, c2 \in DOMAIN store.Course :
           Cardinality(StudentMemberships(store, c1))
               # Cardinality(StudentMemberships(store, c2))

\* C18: for every max_score >= 1 and whatever value of [1, max_score] the
\* triangular draw yields, biased_score returns an integer of [1, max_score].
C18_ScoreInRange ==
    samp.pc = "return" =>
        (samp.val \in Int /\ 1 <= samp.val /\ samp.val <= samp.max_score)

\* C18's case: max_score 5 and the draw 4.5, which rounds to the even 4.
C18_Witness ==
    /\ samp.pc = "return"
    /\ samp.max_score = 5
    /\ 2 * samp.a = 9 * Grain
    /\ samp.val = 4

\* C19 (as claimed): whenever the distribution has assigned more than n
\* students, the correction removes the surplus, from the last team
\* backwards, and leaves no team below min_size.
C19_CorrectionRemovesSurplus ==
    [][(part.pc = "fix" /\ part.assigned > part.n) =>
          /\ Len(part'.sizes) = Len(part.sizes)
          /\ Sum(part'.sizes) = part.n
          /\ \A i \in DOMAIN part.sizes :
                 /\ part'.sizes[i] >= part.min_team
                 /\ part'.sizes[i] <= part.sizes[i]
          /\ \A i \in DOMAIN part.sizes, j \in DOMAIN part.sizes :
                 (i < j /\ part'.sizes[i] < part.sizes[i])
                     => part'.sizes[j] = part.min_team]_vars

\* C20: a run invoked without purge only adds rows: every row of the eight
\* kinds that the store held before the run is still there, unchanged,
\* whether the run succeeds or fails; and no step of a generation that goes
\* on changes or removes a row the store holds.
C20_RunWithoutPurgeOnlyAdds ==
    [][/\ (runs' > 0 /\ ~opt'.purge) =>
              \A m \in Range(EightKinds) : IsPrefix(before'[m], store'[m])
       /\ (pc \in TxnPcs /\ pc' # "failed") =>
              \A m \in Range(EightKinds) : IsPrefix(store[m], store'[m])]_vars

\* C20's case: a run without purge over the rows of an earlier run has
\* completed and has added rows of every kind.
C20_Witness ==
    /\ pc = "done"
    /\ ~opt.purge
    /\ \A m \in Range(EightKinds) :
           before[m] # <<>> /\ Len(store[m]) > Len(before[m])

(***************************************************************************)
(* C21-C30                                                                 *)
(***************************************************************************)
\* The two forms of a pass agree: over the orders of the teams, the passes of
\* WhilePass are the passes of WhilePassOn over PassHits.
PassOutcomesAgree ==
    (part.pc = "while" /\ part.assigned < part.n) =>
        {WhilePass(part, idxs, part.n, part.min_team, part.max_team) :
            idxs \in Perms(1..part.team_count)}
        = {WhilePassOn(part, hit, part.n, part.min_team, part.max_team) :
            hit \in PassHits(part, part.n, part.max_team)}

\* C21: at the three levels as the file configures them (30..80 students with
\* teams of 4..8, 30..80 with 4..6, 30..100 with 4..6), the partitioner never
\* fails its assert and returns sizes that sum to n and lie within
\* [team_min, team_max], whatever the shuffles yield.
C21_PresetsNeverFail ==
    /\ part.pc # "raise"
    /\ part.pc = "return" =>
          /\ Sum(part.sizes) = part.n
          /\ \A i \in DOMAIN part.sizes :
                part.min_team <= part.sizes[i] /\ part.sizes[i] <= part.max_team

\* A call at level 3 with more than 80 students returned after a pass that
\* could add to only some of the teams.
C21_Witness ==
    /\ part.pc = "return"
    /\ part.n > 80
    /\ part.max_team = 6
    /\ part.passes >= 2
    /\ \E i, j \in DOMAIN part.sizes : part.sizes[i] # part.sizes[j]

\* Some team count t >= 1 has t*min_team <= n <= t*max_team.
ValidExists(n, min_team, max_team) ==
    \E t \in 1..Max(1, n) : t * min_team <= n /\ n <= t * max_team

\* C22: when some team count admits a partition of n into sizes within
\* [min_team, max_team], the call returns one and does not fail its assert,
\* whatever the shuffles yield.
C22_ValidPartitionFound ==
    (part.pc \in {"return", "raise"}
        /\ ValidExists(part.n, part.min_team, part.max_team)) =>
        /\ part.pc = "return"
        /\ Sum(part.sizes) = part.n
        /\ \A i \in DOMAIN part.sizes :
              part.min_team <= part.sizes[i] /\ part.sizes[i] <= part.max_team

\* A call for which a partition exists returned after a team was appended and
\* the overshoot taken back.
C22_Witness ==
    /\ part.pc = "return"
    /\ ValidExists(part.n, part.min_team, part.max_team)
    /\ Len(part.sizes)
          > PartitionInit(part.n, part.min_team, part.max_team).team_count
    /\ part.assigned > part.n

\* C25: every call ends (it returns or its assert raises), and every pass of
\* the while loop adds a student to a team or appends a team of at least one,
\* so that assigned grows with each pass.
C25_PartitionTerminates ==
    /\ <>(part.pc \in {"return", "raise"})
    /\ [][(part.pc = "while" /\ part'.pc = "while") =>
            /\ part'.assigned > part.assigned
            /\ \/ /\ part'.team_count = part.team_count
                  /\ \E i \in 1..part.team_count :
                        part'.sizes[i] = part.sizes[i] + 1
               \/ /\ part'.team_count = part.team_count + 1
                  /\ part'.sizes[part'.team_count] >= 1
                  /\ part'.assigned
                        = part.assigned + part'.sizes[part'.team_count]]_vars

\* A call returned after three passes, one of which appended a team.
C25_Witness ==
    /\ part.pc = "return"
    /\ part.passes >= 3
    /\ Len(part.sizes)
          > PartitionInit(part.n, part.min_team, part.max_team).team_count

\* Every invocation so far has completed its generation.
AllRunsCompleted == Len(hist) = runs

\* The partition invariant of a course: each membership is assigned to
\* exactly one team, a team of the course, and the sizes of the course's
\* teams sum to the number of its memberships.
PartitionInvariant(db, course) ==
    /\ \A m \in Range(MembersOf(db, course)) :
           /\ Cardinality(AssignmentsOf(db, m)) = 1
           /\ \A r \in AssignmentsOf(db, m) :
                  db.Team[db.TeamMember[r].team].course = course
    /\ Sum([k \in DOMAIN TeamsOf(db, course) |->
               Cardinality(RowsOfTeam(db, TeamsOf(db, course)[k]))])
          = Len(MembersOf(db, course))

\* C23: after any sequence of completed generation runs, runs without purge
\* over the rows of earlier runs included, every course of the store has the
\* partition invariant.
C23_PartitionInvariantAfterRuns ==
    (pc = "done" /\ AllRunsCompleted) =>
        \A course \in DOMAIN store.Course : PartitionInvariant(store, course)

\* The purge of the invocation under way has run to its end.
PurgeCompleted ==
    opt.purge /\ \A k \in DOMAIN EightKinds : <<"delete", EightKinds[k]>> \in Range(log)

\* C24: when the generation of a run with purge fails after the purge has
\* completed, the store holds no row of the eight kinds: the deletes are not
\* undone and the rows created before the failure are gone.
C24_FailureAfterPurgeLeavesNothing ==
    (pc = "failed" /\ PurgeCompleted) => AllEmpty(store)

\* C24's case: a run with purge over the rows of an earlier run failed after
\* it had created the teams of a course.
C24_Witness ==
    /\ pc = "failed"
    /\ PurgeCompleted
    /\ \A k \in DOMAIN EightKinds : before[EightKinds[k]] # <<>>
    /\ <<"create", "Team">> \in Range(log)
    /\ store # before

\* The indexes, among the CoursesMax courses a level can have, of the courses
\* whose student emails begin with the prefix of course i.
CoursesMatching(i) ==
    {j \in 0..(CoursesMax - 1) :
        /\ EmailStartsWith(StudentEmail(CourseNumber(j), 0), CourseNumber(i))
        /\ EmailStartsWith(StudentEmail(CourseNumber(j), 99), CourseNumber(i))}

\* C26: in a run on a purged store the students re-read by email prefix are
\* the students just created for the course and no others (of the 2000
\* courses a level can have, only the course's own emails match its prefix),
\* so the memberships of the course number as many as the students drawn and
\* as the sizes sum to, and the teams re-read number as many as the sizes.
C26_RereadIsTheCourseOnly ==
    OnPurgedStore =>
        /\ pc = "members" =>
              /\ Len(loc.students) = loc.num_students
              /\ Range(loc.students)
                    = (Len(store.User) - loc.num_students + 1)..Len(store.User)
              /\ CoursesMatching(idx) = {idx}
        /\ pc = "teams" =>
              /\ Len(loc.members) = loc.num_students
              /\ loc.members = MembersOf(store, loc.course)
        /\ pc = "team_members" =>
              /\ Len(loc.members) = loc.num_students
              /\ Sum(loc.sizes) = loc.num_students
              /\ Len(loc.teams) = Len(loc.sizes)
              /\ loc.teams = TeamsOf(store, loc.course)

\* C26's case: the second course of a run with purge, over the rows of an
\* earlier run, has its students re-read, its memberships made and its teams
\* re-read.
C26_Witness ==
    /\ pc = "team_members"
    /\ opt.purge
    /\ before.User # <<>>
    /\ idx = 1
    /\ Len(loc.teams) >= 2
    /\ Len(store.User) > loc.num_students + 2

\* C27 as stated: the shuffle of the memberships comes first, ahead of the
\* call of the partitioner, so the shuffle takes the generator as the draw of
\* the student count left it and the partitioner takes it after the shuffle.
C27_ShuffleBeforePartitioner ==
    [][(pc = "teams" /\ pc' = "team_members") =>
          LET sh == Shuffle(loc.members, rng)
              p == partition_into_teams(loc.num_students, Cfg.team_min,
                                        Cfg.team_max, sh.rng)
          IN  /\ loc'.members = sh.val
              /\ loc'.sizes = p.sizes
              /\ rng' = p.rng]_vars

\* C27: for each course the partitioner is called first and the shuffle of
\* the memberships follows it, before any membership is assigned to a team;
\* the teams are then cut from the shuffled order.
C27_ShuffleBeforeAssignment ==
    [][/\ (pc = "teams" /\ pc' = "team_members") =>
             LET p == partition_into_teams(loc.num_students, Cfg.team_min,
                                           Cfg.team_max, rng)
                 sh == Shuffle(loc.members, p.rng)
             IN  /\ loc'.sizes = p.sizes
                 /\ loc'.members = sh.val
                 /\ rng' = sh.rng
                 /\ \A m \in Range(loc.members) : AssignmentsOf(store', m) = {}
       /\ (pc = "team_members" /\ pc' = "assessment") =>
             [k \in 1..(Len(store'.TeamMember) - Len(store.TeamMember)) |->
                 store'.TeamMember[Len(store.TeamMember) + k].course_member]
               = SubSeq(loc.members, 1, Sum(loc.sizes))]_vars

\* C27's case: a course of two teams whose memberships the shuffle has
\* reordered after the partitioner drew from the generator.
C27_Witness ==
    /\ pc = "team_members"
    /\ Len(loc.sizes) >= 2
    /\ loc.members # MembersOf(store, loc.course)
    /\ PartitionInit(loc.num_students, Cfg.team_min, Cfg.team_max).assigned
          < loc.num_students

\* C28 as stated: once the pool has shut down, total_sent is the number of
\* requests submitted and is the sum of total_success and total_errors,
\* whatever the interleaving of the threads.
C28_NoLostUpdate ==
    dos.pc = "report" =>
        /\ dos.total_sent = dos.submitted
        /\ dos.total_sent = dos.total_success + dos.total_errors

\* C29: every call of _rand_team_splits returns, and the sizes it returns
\* sum to student_count, whatever rng.randint yields.
C29_SplitsCoverAndTerminate ==
    /\ <>(split.pc = "return")
    /\ [](split.pc = "return" => Sum(split.sizes) = split.student_count)
    /\ [](split.remaining >= 0)

\* A call returned several teams, the last of which took a remainder below
\* team_min.
C29_Witness ==
    /\ split.pc = "return"
    /\ Len(split.sizes) >= 2
    /\ split.sizes[Len(split.sizes)] > split.team_max
    /\ Sum(split.sizes) = split.student_count

\* C30 as stated: for student_count >= team_min every size returned lies
\* within [team_min, team_max], whatever rng.randint yields.
C30_SplitSizesWithinBounds ==
    (split.pc = "return" /\ split.student_count >= split.team_min) =>
        \A i \in DOMAIN split.sizes :
            split.team_min <= split.sizes[i] /\ split.sizes[i] <= split.team_max

====
